---- MODULE Spec2Model ----
(***************************************************************************)
(* A model of utilites/dirCompare.py: the directory-checksum-and-diff      *)
(* engine (compute_folder_checksum, calculate_folder_size, format_size,    *)
(* compare_folders), the config reader and the main pipeline with its      *)
(* spinner thread, run against a file system that another process may      *)
(* change while main is walking it.                                        *)
(*                                                                         *)
(* Strings are sequences of one-character strings, so that startswith,     *)
(* endswith, split, strip, os.path.join and the lexicographic order of     *)
(* sorted() are computed rather than assumed.                              *)
(***************************************************************************)
EXTENDS Integers, Sequences, FiniteSets, TLC

VARIABLES
    argc,                   \* len(sys.argv)
    config,                 \* the config file: whether it exists, its lines
    fs,                     \* the file system: content and mode of each file
    sep,                    \* os.sep of the platform the run is on
    mutations,              \* changes the concurrent process may still make
    pc,                     \* main's position
    wpc,                    \* position inside the os.walk loop of the callee
    original_dir, destination_dir,
    stack,                  \* os.walk: directories still to be listed
    root,                   \* os.walk: the directory being processed
    files,                  \* os.walk: files of `root` still to be processed
    total_size,             \* calculate_folder_size's accumulator
    checksums,              \* compute_folder_checksum's dict
    origin_size, destination_size,
    original_checksums, destination_checksums,
    comparison,
    report,                 \* the report file's content, or None
    stdout,                 \* main's final message
    spinner_alive, spinner_char,
    bytes_size, formatted,  \* format_size's argument and its return value
    traversed,              \* history: an os.walk listed a directory
    hashed,                 \* history: hash calls of the current build, per path
    aborted,                \* history: the stage an exception left from
    hashFault,              \* history: a listed file was gone/unreadable at hashing
    sizeVanish              \* history: a listed file was gone at its size lookup

vars == <<argc, config, fs, sep, mutations, pc, wpc, original_dir,
          destination_dir, stack, root, files, total_size, checksums,
          origin_size, destination_size, original_checksums,
          destination_checksums, comparison, report, stdout, spinner_alive,
          spinner_char, bytes_size, formatted, traversed, hashed, aborted,
          hashFault, sizeVanish>>

\* An optional value is a sequence of at most one element.
None == <<>>
Some(x) == <<x>>

----------------------------------------------------------------------------
(* Strings                                                                 *)

\* The characters the model uses, in code point order.
AsciiOrder ==
    << "\n", " ", "\"", ".", "/", "=", "A", "B", "D", "M", "S", "T", "\\",
       "_", "a", "b", "c", "d", "e", "g", "h", "i", "k", "l", "m", "n", "o",
       "p", "r", "s", "t", "u", "w", "x" >>

Ord(c) == CHOOSE i \in 1..Len(AsciiOrder) : AsciiOrder[i] = c

Min(a, b) == IF a <= b THEN a ELSE b

\* Python's str.__lt__: the first differing code point decides, a proper
\* prefix is smaller.
StrLess(a, b) ==
    \E i \in 1..(Min(Len(a), Len(b)) + 1) :
        /\ \A j \in 1..(i - 1) : a[j] = b[j]
        /\ \/ i > Len(a) /\ i <= Len(b)
           \/ i <= Len(a) /\ i <= Len(b) /\ Ord(a[i]) < Ord(b[i])

startswith(s, prefix) ==
    Len(s) >= Len(prefix) /\ SubSeq(s, 1, Len(prefix)) = prefix

endswith(s, suffix) ==
    Len(s) >= Len(suffix)
    /\ SubSeq(s, Len(s) - Len(suffix) + 1, Len(s)) = suffix

Whitespace == {" ", "\n"}

RECURSIVE lstrip(_, _)
lstrip(s, chars) ==
    IF s # <<>> /\ Head(s) \in chars THEN lstrip(Tail(s), chars) ELSE s

RECURSIVE rstrip(_, _)
rstrip(s, chars) ==
    IF s # <<>> /\ s[Len(s)] \in chars
    THEN rstrip(SubSeq(s, 1, Len(s) - 1), chars)
    ELSE s

strip(s, chars) == rstrip(lstrip(s, chars), chars)

\* line.split("=", 1)[1], for a line that holds an "=".
AfterFirstEq(line) ==
    LET i == CHOOSE k \in 1..Len(line) :
                 line[k] = "=" /\ \A j \in 1..(k - 1) : line[j] # "="
    IN  SubSeq(line, i + 1, Len(line))

\* sorted() of a collection of distinct strings.
RECURSIVE sorted(_)
sorted(S) ==
    IF S = {} THEN <<>>
    ELSE LET m == CHOOSE x \in S : \A y \in S \ {x} : StrLess(x, y)
         IN  <<m>> \o sorted(S \ {m})

Range(s) == {s[i] : i \in 1..Len(s)}

----------------------------------------------------------------------------
(* Ignore policy                                                           *)

IGNORE_FILES ==
    { <<".", "D", "S", "_", "S", "t", "o", "r", "e">>,
      <<"T", "h", "u", "m", "b", "s", ".", "d", "b">>,
      <<"d", "e", "s", "k", "t", "o", "p", ".", "i", "n", "i">>,
      <<".", "g", "i", "t">>,
      <<".", "g", "i", "t", "i", "g", "n", "o", "r", "e">>,
      <<".", "g", "i", "t", "a", "t", "t", "r", "i", "b", "u", "t", "e", "s">> }

IGNORE_EXTENSIONS ==
    { <<".", "t", "m", "p">>, <<".", "b", "a", "k">>, <<".", "s", "w", "p">>,
      <<".", "s", "w", "o">>, <<".", "o", "l", "d">>,
      <<".", "o", "r", "i", "g">> }

\* Faulty variant: the extensions are matched as whole names.
IgnoredExactOnly(file) ==
    file \in IGNORE_FILES \/ file \in IGNORE_EXTENSIONS

\* The test of compute_folder_checksum's loop.
Ignored(file) ==
    file \in IGNORE_FILES \/ \E ext \in IGNORE_EXTENSIONS : endswith(file, ext)

----------------------------------------------------------------------------
(* compare_folders                                                         *)

EmptyMap == [k \in {} |-> 0]

\* The elements of a set in an order other than sorted()'s.
RECURSIVE descending(_)
descending(S) ==
    IF S = {} THEN <<>>
    ELSE LET m == CHOOSE x \in S : \A y \in S \ {x} : StrLess(y, x)
         IN  <<m>> \o descending(S \ {m})

\* Faulty variant: the three sets are returned as lists without sorting.
compare_folders_unsorted(folder1_checksums, folder2_checksums) ==
    LET folder1_files == DOMAIN folder1_checksums
        folder2_files == DOMAIN folder2_checksums
        added == folder2_files \ folder1_files
        removed == folder1_files \ folder2_files
        common == folder1_files \cap folder2_files
        changed == {file \in common :
                        folder1_checksums[file] # folder2_checksums[file]}
    IN  [added |-> descending(added), removed |-> descending(removed),
         changed |-> descending(changed)]

\* Faulty variant: every common key counts as changed.
compare_folders_all_common(folder1_checksums, folder2_checksums) ==
    LET folder1_files == DOMAIN folder1_checksums
        folder2_files == DOMAIN folder2_checksums
        added == folder2_files \ folder1_files
        removed == folder1_files \ folder2_files
        common == folder1_files \cap folder2_files
    IN  [added |-> sorted(added), removed |-> sorted(removed),
         changed |-> sorted(common)]

compare_folders(folder1_checksums, folder2_checksums) ==
    LET folder1_files == DOMAIN folder1_checksums
        folder2_files == DOMAIN folder2_checksums
        added == folder2_files \ folder1_files
        removed == folder1_files \ folder2_files
        common == folder1_files \cap folder2_files
        changed == {file \in common :
                        folder1_checksums[file] # folder2_checksums[file]}
    IN  [added |-> sorted(added), removed |-> sorted(removed),
         changed |-> sorted(changed)]

----------------------------------------------------------------------------
(* format_size                                                             *)

\* A byte count is a little-endian sequence of NumLimbs base-1024 digits:
\* dividing by 1024.0 moves one digit behind the point.  Counts below 2^53
\* and their quotients by powers of 1024 are exact as floats; a count of
\* 1024^5 or more leaves the loop whatever its low digits are.
Base == 1024
NumLimbs == 6
Units == << <<"B">>, <<"K", "B">>, <<"M", "B">>, <<"G", "B">>, <<"T", "B">> >>

\* bytes_size < 1024.0 after k divisions.
BelowBase(limbs, k) == \A i \in (k + 2)..Len(limbs) : limbs[i] = 0

\* f"{bytes_size:.0f}" after k divisions, for a value below 1024: the
\* nearest integer, a tie going to the even one.
FormatF0(limbs, k) ==
    LET whole == limbs[k + 1]
        top == IF k = 0 THEN 0 ELSE limbs[k]
        lowZero == \A i \in 1..(k - 1) : limbs[i] = 0
        above == top > Base \div 2 \/ (top = Base \div 2 /\ ~lowZero)
        tie == k > 0 /\ top = Base \div 2 /\ lowZero
    IN  IF above \/ (tie /\ whole % 2 = 1) THEN whole + 1 ELSE whole

RECURSIVE format_loop(_, _)
format_loop(limbs, k) ==
    IF k >= Len(Units) THEN None
    ELSE IF BelowBase(limbs, k)
         THEN Some([num |-> FormatF0(limbs, k), unit |-> Units[k + 1]])
         ELSE format_loop(limbs, k + 1)

format_size(limbs) == format_loop(limbs, 0)

\* The digits of a count n < 1024^3.
Limbs(n) ==
    [i \in 1..NumLimbs |->
        IF i = 1 THEN n % Base
        ELSE IF i = 2 THEN (n \div Base) % Base
        ELSE IF i = 3 THEN (n \div (Base * Base)) % Base
        ELSE 0]

----------------------------------------------------------------------------
(* read_config                                                             *)

KeyOriginal == <<"o", "r", "i", "g", "i", "n", "a", "l", "=">>
KeyDestination ==
    <<"d", "e", "s", "t", "i", "n", "a", "t", "i", "o", "n", "=">>

ConfigValue(line) == strip(strip(AfterFirstEq(line), Whitespace), {"\""})

\* The loop over the lines: a later line of a key overrides an earlier one.
RECURSIVE read_loop(_, _, _)
read_loop(lines, o, d) ==
    IF lines = <<>> THEN [original |-> o, destination |-> d]
    ELSE LET line == Head(lines)
         IN  IF startswith(line, KeyOriginal)
             THEN read_loop(Tail(lines), ConfigValue(line), d)
             ELSE IF startswith(line, KeyDestination)
                  THEN read_loop(Tail(lines), o, ConfigValue(line))
                  ELSE read_loop(Tail(lines), o, d)

\* None and the empty string are both falsy: ok is FALSE where the code
\* raises ValueError.
read_config(lines) ==
    LET r == read_loop(lines, None, None)
    IN  [ok |-> r.original # <<>> /\ r.destination # <<>>,
         original |-> r.original, destination |-> r.destination]

----------------------------------------------------------------------------
(* The file system and paths                                               *)

Seps == {"/", "\\"}

DirA == <<"A">>
DirB == <<"B">>
DirM == <<"M">>
\* The directories that exist; DirM does not.
ExistingRoots == {DirA, DirB}

SubD == <<"d">>
SubE == <<"e">>
\* A directory is the sequence of directory names leading to it from its
\* root.  Every existing root has the same skeleton of subdirectories.
Dirs == {<<>>, <<SubD>>, <<SubE>>}
Children(dir) == {d \in Dirs : Len(d) = Len(dir) + 1
                               /\ SubSeq(d, 1, Len(dir)) = dir}

\* os.path.join on a platform whose os.sep is s.
os_path_join(a, b, s) == a \o <<s>> \o b

\* The path os.walk yields for directory dir under top: top itself, then
\* join(parent, dirname) level by level.
RECURSIVE WalkPath(_, _, _)
WalkPath(top, dir, s) ==
    IF dir = <<>> THEN top
    ELSE os_path_join(WalkPath(top, SubSeq(dir, 1, Len(dir) - 1), s),
                      dir[Len(dir)], s)

\* path.split(s)
RECURSIVE SplitOn(_, _, _)
SplitOn(path, s, cur) ==
    IF path = <<>> THEN <<cur>>
    ELSE IF Head(path) = s
         THEN <<cur>> \o SplitOn(Tail(path), s, <<>>)
         ELSE SplitOn(Tail(path), s, Append(cur, Head(path)))

\* s.join(parts)
RECURSIVE JoinWith(_, _)
JoinWith(parts, s) ==
    IF parts = <<>> THEN <<>>
    ELSE IF Len(parts) = 1 THEN parts[1]
         ELSE parts[1] \o <<s>> \o JoinWith(Tail(parts), s)

\* os.path.relpath(path, start) for a path below start: the components
\* after those of start, joined with the platform's separator.
relpath(path, start, s) ==
    LET p == SplitOn(path, s, <<>>)
        st == SplitOn(start, s, <<>>)
    IN  JoinWith(SubSeq(p, Len(st) + 1, Len(p)), s)

\* file_path = os.path.join(root, file)
FilePath(top, dir, file, s) == os_path_join(WalkPath(top, dir, s), file, s)

\* Faulty variant: the key is the bare file name.
KeyIsFileName(top, dir, file, s) == file

\* relative_path = os.path.relpath(file_path, folder_path)
RelativePath(top, dir, file, s) == relpath(FilePath(top, dir, file, s), top, s)

\* os.path.basename of a snapshot key.
Basename(key) ==
    LET p == SplitOn(key, sep, <<>>) IN p[Len(p)]

\* A file is <<root, dir, name>>; fs maps the files that exist to their
\* content and mode.
FileOf(top, dir, name) == <<top, dir, name>>
Exists(top, dir, name) == FileOf(top, dir, name) \in DOMAIN fs
Readable(top, dir, name) == fs[FileOf(top, dir, name)].mode = "r"
\* os.scandir at this moment: the names of the files in a directory.
Listing(top, dir) == {f[3] : f \in {g \in DOMAIN fs : g[1] = top /\ g[2] = dir}}

Contents == {"c1", "c2"}
\* os.path.getsize
SizeOf(content) == IF content = "c1" THEN 512 ELSE 1024
\* hashlib's digest of a whole content: collision-free on Contents.
Digest(content) == <<"sha256", content>>

\* The permutations of a finite set, as sequences.
Perms(S) == {p \in [1..Cardinality(S) -> S] : Range(p) = S}

Put(m, k, v) == [x \in DOMAIN m \cup {k} |-> IF x = k THEN v ELSE m[x]]

----------------------------------------------------------------------------
(* Inputs                                                                  *)

PlainA == <<"a">>
XTmp == <<"x", ".", "t", "m", "p">>

\* The files a tree may hold, given the name n under test: n in the root
\* and in d, and a plain file in e.
Universe(n) ==
    {FileOf(r, dir[1], dir[2]) :
        r \in ExistingRoots,
        dir \in {<< <<>>, n >>, << <<SubD>>, n >>, << <<SubE>>, PlainA >>}}

\* The destination's files may differ in content from the original's.
Allowed(f) ==
    IF f[1] = DirA THEN {"absent", "c1"}
    ELSE IF f[2] = <<>> THEN {"absent", "c1", "c2"}
    ELSE IF f[2] = <<SubD>> THEN {"absent", "c1"}
    ELSE {"absent", "c2"}

FsOf(a) ==
    [f \in {g \in DOMAIN a : a[g] # "absent"} |->
        [content |-> a[f], mode |-> "r"]]

FileSystems(names) ==
    UNION { { FsOf(a) : a \in {b \in [Universe(n) -> {"absent", "c1", "c2"}] :
                                  \A f \in Universe(n) : b[f] \in Allowed(f)} }
            : n \in names }

LineOrigA == KeyOriginal \o <<"A">>
LineOrigM == KeyOriginal \o <<"M", "\n">>
LineOrigEmpty == KeyOriginal \o <<" ", "\n">>
LineDestB == KeyDestination \o <<"B", "\n">>
LineDestQuotedA == KeyDestination \o <<"\"", "A", "\"", " ", "\n">>
LineDestM == KeyDestination \o <<"M">>
LineDestIndented == <<" ">> \o KeyDestination \o <<"B">>
MaxFiles == 2
MaxMutations == 1

\* No config file, or one of: no line, one key only, both keys in either
\* order, a quoted value, a missing root, an empty value, a key that is not
\* at the start of its line, a key given twice.
ConfigFiles ==
    {[exists |-> FALSE, lines |-> <<>>]}
    \cup {[exists |-> TRUE, lines |-> l] :
            l \in { <<>>, <<LineOrigA>>, <<LineDestB>>,
                    <<LineOrigA, LineDestB>>, <<LineDestB, LineOrigA>>,
                    <<LineOrigA, LineDestQuotedA>>,
                    <<LineOrigM, LineDestB>>, <<LineOrigA, LineDestM>>,
                    <<LineOrigEmpty, LineDestB>>,
                    <<LineOrigA, LineDestIndented>>,
                    <<LineOrigM, LineOrigA, LineDestM, LineDestB>> }}

RunNames == {PlainA, XTmp}
RunFileSystems ==
    {f \in FileSystems(RunNames) : Cardinality(DOMAIN f) <= MaxFiles}

SpinnerChars == <<"|", "/", "-", "\\">>

----------------------------------------------------------------------------
(* main                                                                    *)

SizeStages == {"size_orig", "size_dest"}
SumStages == {"sum_orig", "sum_dest"}
WalkStages == SizeStages \cup SumStages

\* The folder_path of the call main is in.
Top == IF pc \in {"size_orig", "sum_orig"} THEN original_dir
       ELSE destination_dir

\* The locals of a callee that is not running.
WalkIdle ==
    /\ wpc = "idle" /\ stack = <<>> /\ root = <<>> /\ files = <<>>
    /\ total_size = 0 /\ checksums = EmptyMap /\ hashed = EmptyMap

\* Entering calculate_folder_size or compute_folder_checksum: fresh locals,
\* os.walk about to list the top directory.
WalkCalled ==
    /\ wpc' = "next" /\ stack' = << <<>> >> /\ root' = <<>> /\ files' = <<>>
    /\ total_size' = 0 /\ checksums' = EmptyMap /\ hashed' = EmptyMap

walkVars == <<wpc, stack, root, files, total_size, checksums, hashed>>
envVars == <<argc, config, fs, sep, mutations>>
resultVars == <<origin_size, destination_size, original_checksums,
                destination_checksums, comparison, report>>
spinnerVars == <<spinner_alive, spinner_char>>
harnessVars == <<bytes_size, formatted>>
historyVars == <<traversed, aborted, hashFault, sizeVanish>>
dirVars == <<original_dir, destination_dir>>

\* What every specification starts from, the inputs apart.
Fresh ==
    /\ WalkIdle
    /\ original_dir = None /\ destination_dir = None
    /\ origin_size = None /\ destination_size = None
    /\ original_checksums = EmptyMap /\ destination_checksums = EmptyMap
    /\ comparison = None /\ report = None /\ stdout = ""
    /\ spinner_alive = FALSE /\ spinner_char = 1
    /\ bytes_size = Limbs(0) /\ formatted = None
    /\ traversed = FALSE /\ aborted = "none"
    /\ hashFault = FALSE /\ sizeVanish = FALSE

Init ==
    /\ argc \in {1, 2, 3}
    /\ config \in ConfigFiles
    /\ fs \in RunFileSystems
    /\ sep \in Seps
    /\ mutations = MaxMutations
    /\ pc = "main"
    /\ Fresh

\* An exception reaches main's handlers: the message is printed and main
\* returns.
Raise(message, stage) ==
    /\ stdout' = message
    /\ aborted' = stage
    /\ pc' = "done"

\* if len(sys.argv) != 2: print usage, return
MainArgs ==
    /\ pc = "main"
    /\ IF argc # 2
       THEN stdout' = "usage" /\ pc' = "done"
       ELSE stdout' = stdout /\ pc' = "read_config"
    /\ UNCHANGED <<envVars, walkVars, resultVars, spinnerVars, harnessVars,
                   historyVars, dirVars>>

\* original_dir, destination_dir = read_config(config_file)
MainReadConfig ==
    /\ pc = "read_config"
    /\ LET r == read_config(config.lines)
       IN  IF ~config.exists
           THEN Raise("error", "config") /\ UNCHANGED dirVars
           ELSE IF ~r.ok
                THEN Raise("unexpected", "config") /\ UNCHANGED dirVars
                ELSE /\ original_dir' = r.original
                     /\ destination_dir' = r.destination
                     /\ pc' = "validate"
                     /\ UNCHANGED <<stdout, aborted>>
    /\ UNCHANGED <<envVars, walkVars, resultVars, spinnerVars, harnessVars,
                   traversed, hashFault, sizeVanish>>

\* os.path.exists of a root
PathExists(path) == path \in ExistingRoots

\* Faulty variant: only the original root is tested.
MainValidateOriginalOnly ==
    /\ pc = "validate"
    /\ IF ~PathExists(original_dir)
       THEN Raise("error", "validate")
       ELSE pc' = "spinner" /\ UNCHANGED <<stdout, aborted>>
    /\ UNCHANGED <<envVars, walkVars, resultVars, spinnerVars, harnessVars,
                   traversed, hashFault, sizeVanish, dirVars>>

\* The two os.path.exists tests.
MainValidate ==
    /\ pc = "validate"
    /\ IF ~PathExists(original_dir) \/ ~PathExists(destination_dir)
       THEN Raise("error", "validate")
       ELSE pc' = "spinner" /\ UNCHANGED <<stdout, aborted>>
    /\ UNCHANGED <<envVars, walkVars, resultVars, spinnerVars, harnessVars,
                   traversed, hashFault, sizeVanish, dirVars>>

\* spinner_thread.start(), then the first calculate_folder_size is entered.
MainStartSpinner ==
    /\ pc = "spinner"
    /\ spinner_alive' = TRUE
    /\ pc' = "size_orig"
    /\ WalkCalled
    /\ UNCHANGED <<envVars, resultVars, spinner_char, harnessVars,
                   historyVars, dirVars, stdout>>

\* The loop body of spinner(): write the next character, sleep.  The thread
\* is a daemon: it ends with the process.
Spin ==
    /\ spinner_alive
    /\ pc # "done"
    /\ spinner_char' = (spinner_char % Len(SpinnerChars)) + 1
    /\ UNCHANGED <<envVars, pc, walkVars, resultVars, spinner_alive,
                   harnessVars, historyVars, dirVars, stdout>>

\* os.walk moves to the next directory: lists it, puts its subdirectories
\* on the stack in the order the listing gave them, and hands the loop its
\* files (sorted by compute_folder_checksum, as listed by
\* calculate_folder_size).  A top that cannot be listed yields nothing.
WalkNext ==
    /\ pc \in WalkStages
    /\ wpc = "next"
    /\ stack # <<>>
    /\ LET dir == Head(stack)
           names == IF PathExists(Top) THEN Listing(Top, dir) ELSE {}
           subdirs == IF PathExists(Top) THEN Children(dir) ELSE {}
       IN  /\ \E order \in Perms(subdirs) : stack' = order \o Tail(stack)
           /\ root' = dir
           /\ IF pc \in SumStages
              THEN files' = sorted(names)
              ELSE files' \in Perms(names)
           /\ wpc' = IF names = {} THEN "next" ELSE "file"
    /\ traversed' = TRUE
    /\ UNCHANGED <<envVars, pc, total_size, checksums, hashed, resultVars,
                   spinnerVars, harnessVars, aborted, hashFault, sizeVanish,
                   dirVars, stdout>>

AfterFile(rest) == IF rest = <<>> THEN "next" ELSE "file"

\* if os.path.exists(file_path)
SizeExists ==
    /\ pc \in SizeStages
    /\ wpc = "file"
    /\ IF Exists(Top, root, Head(files))
       THEN wpc' = "getsize" /\ UNCHANGED <<files, sizeVanish>>
       ELSE /\ files' = Tail(files)
            /\ wpc' = AfterFile(Tail(files))
            /\ sizeVanish' = TRUE
    /\ UNCHANGED <<envVars, pc, stack, root, total_size, checksums, hashed,
                   resultVars, spinnerVars, harnessVars, traversed, aborted,
                   hashFault, dirVars, stdout>>

\* total_size += os.path.getsize(file_path); a missing file raises
\* FileNotFoundError.
SizeGet ==
    /\ pc \in SizeStages
    /\ wpc = "getsize"
    /\ IF Exists(Top, root, Head(files))
       THEN /\ total_size' =
                 total_size + SizeOf(fs[FileOf(Top, root, Head(files))].content)
            /\ files' = Tail(files)
            /\ wpc' = AfterFile(Tail(files))
            /\ UNCHANGED <<pc, stdout, aborted, sizeVanish>>
       ELSE /\ Raise("error", "size")
            /\ sizeVanish' = TRUE
            /\ UNCHANGED <<total_size, files, wpc>>
    /\ UNCHANGED <<envVars, stack, root, checksums, hashed, resultVars,
                   spinnerVars, harnessVars, traversed, hashFault, dirVars>>

\* calculate_folder_size returns; main formats the total and enters the
\* next call.
SizeReturn ==
    /\ pc \in SizeStages
    /\ wpc = "next"
    /\ stack = <<>>
    /\ IF pc = "size_orig"
       THEN /\ origin_size' = format_size(Limbs(total_size))
            /\ pc' = "size_dest"
            /\ UNCHANGED destination_size
       ELSE /\ destination_size' = format_size(Limbs(total_size))
            /\ pc' = "sum_orig"
            /\ UNCHANGED origin_size
    /\ WalkCalled
    /\ UNCHANGED <<envVars, original_checksums, destination_checksums,
                   comparison, report, spinnerVars, harnessVars, historyVars,
                   dirVars, stdout>>

\* Faulty variant: a file that cannot be opened is skipped and the build
\* goes on.
HashFileSkipMissing ==
    /\ pc \in SumStages
    /\ wpc = "file"
    /\ LET file == Head(files)
           file_path == FilePath(Top, root, file, sep)
           relative_path == RelativePath(Top, root, file, sep)
           opens == Exists(Top, root, file) /\ Readable(Top, root, file)
       IN  /\ files' = Tail(files)
           /\ wpc' = AfterFile(Tail(files))
           /\ hashFault' = (hashFault \/ (~Ignored(file) /\ ~opens))
           /\ IF Ignored(file) \/ ~opens
              THEN UNCHANGED <<checksums, hashed>>
              ELSE /\ checksums' =
                        Put(checksums, relative_path,
                            Digest(fs[FileOf(Top, root, file)].content))
                   /\ hashed' = Put(hashed, file_path, 1)
    /\ UNCHANGED <<envVars, pc, stack, root, total_size, resultVars,
                   spinnerVars, harnessVars, traversed, sizeVanish, dirVars,
                   stdout, aborted>>

\* One turn of compute_folder_checksum's inner loop: skip an ignored name,
\* else open and hash the file and insert its relative path.  open raises
\* FileNotFoundError for a missing file, PermissionError for an unreadable
\* one.
HashFile ==
    /\ pc \in SumStages
    /\ wpc = "file"
    /\ LET file == Head(files)
           file_path == FilePath(Top, root, file, sep)
           relative_path == RelativePath(Top, root, file, sep)
       IN  IF Ignored(file)
           THEN /\ files' = Tail(files)
                /\ wpc' = AfterFile(Tail(files))
                /\ UNCHANGED <<checksums, hashed, pc, stdout, aborted,
                               hashFault>>
           ELSE IF ~Exists(Top, root, file)
           THEN /\ Raise("error", "checksum")
                /\ hashFault' = TRUE
                /\ UNCHANGED <<checksums, hashed, files, wpc>>
           ELSE IF ~Readable(Top, root, file)
           THEN /\ Raise("unexpected", "checksum")
                /\ hashFault' = TRUE
                /\ UNCHANGED <<checksums, hashed, files, wpc>>
           ELSE /\ checksums' =
                     Put(checksums, relative_path,
                         Digest(fs[FileOf(Top, root, file)].content))
                /\ hashed' =
                     Put(hashed, file_path,
                         IF file_path \in DOMAIN hashed
                         THEN hashed[file_path] + 1 ELSE 1)
                /\ files' = Tail(files)
                /\ wpc' = AfterFile(Tail(files))
                /\ UNCHANGED <<pc, stdout, aborted, hashFault>>
    /\ UNCHANGED <<envVars, stack, root, total_size, resultVars, spinnerVars,
                   harnessVars, traversed, sizeVanish, dirVars>>

\* compute_folder_checksum returns its dict.
ChecksumReturn ==
    /\ pc \in SumStages
    /\ wpc = "next"
    /\ stack = <<>>
    /\ IF pc = "sum_orig"
       THEN /\ original_checksums' = checksums
            /\ pc' = "sum_dest"
            /\ WalkCalled
            /\ UNCHANGED destination_checksums
       ELSE /\ destination_checksums' = checksums
            /\ pc' = "compare"
            /\ wpc' = "idle" /\ stack' = <<>> /\ root' = <<>> /\ files' = <<>>
            /\ total_size' = 0 /\ checksums' = EmptyMap
            /\ UNCHANGED <<original_checksums, hashed>>
    /\ UNCHANGED <<envVars, origin_size, destination_size, comparison, report,
                   spinnerVars, harnessVars, historyVars, dirVars, stdout>>

\* comparison = compare_folders(original_checksums, destination_checksums)
Compare ==
    /\ pc = "compare"
    /\ comparison' =
         Some(compare_folders(original_checksums, destination_checksums))
    /\ pc' = "join"
    /\ UNCHANGED <<envVars, walkVars, origin_size, destination_size,
                   original_checksums, destination_checksums, report,
                   spinnerVars, harnessVars, historyVars, dirVars, stdout>>

\* Thread.join() without a timeout returns only once the thread has ended.
JoinForever == ~spinner_alive
\* spinner_thread.join(0): the timeout of 0 has expired at once.
JoinReturns == TRUE

MainJoin ==
    /\ pc = "join"
    /\ JoinReturns
    /\ pc' = "write"
    /\ UNCHANGED <<envVars, walkVars, resultVars, spinnerVars, harnessVars,
                   historyVars, dirVars, stdout>>

\* write_results_to_file: the report holds the two sizes and the three
\* lists (its timestamp and duration are clock readings).  makedirs or open
\* may fail, which main reports as an unexpected error.
MainWrite ==
    /\ pc = "write"
    /\ \E ok \in BOOLEAN :
         IF ok
         THEN /\ report' = Some([origin_size |-> origin_size,
                                 destination_size |-> destination_size,
                                 results |-> comparison[1]])
              /\ stdout' = "written"
              /\ pc' = "done"
              /\ UNCHANGED aborted
         ELSE Raise("unexpected", "report") /\ UNCHANGED report
    /\ UNCHANGED <<envVars, walkVars, origin_size, destination_size,
                   original_checksums, destination_checksums, comparison,
                   spinnerVars, harnessVars, traversed, hashFault, sizeVanish,
                   dirVars>>

\* Another process deletes a file while main walks the trees.
DeleteFile ==
    /\ mutations > 0
    /\ pc \in WalkStages
    /\ \E f \in DOMAIN fs : fs' = [g \in DOMAIN fs \ {f} |-> fs[g]]
    /\ mutations' = mutations - 1
    /\ UNCHANGED <<argc, config, sep, pc, walkVars, resultVars, spinnerVars,
                   harnessVars, historyVars, dirVars, stdout>>

\* Another process makes a file unreadable while main walks the trees.
ChmodFile ==
    /\ mutations > 0
    /\ pc \in WalkStages
    /\ \E f \in DOMAIN fs :
         /\ fs[f].mode = "r"
         /\ fs' = [fs EXCEPT ![f].mode = "-"]
    /\ mutations' = mutations - 1
    /\ UNCHANGED <<argc, config, sep, pc, walkVars, resultVars, spinnerVars,
                   harnessVars, historyVars, dirVars, stdout>>

MainNext ==
    \/ MainArgs \/ MainReadConfig \/ MainValidate \/ MainStartSpinner
    \/ WalkNext \/ SizeExists \/ SizeGet \/ SizeReturn
    \/ HashFile \/ ChecksumReturn \/ Compare \/ MainJoin \/ MainWrite

Next == MainNext \/ Spin \/ DeleteFile \/ ChmodFile

Spec == Init /\ [][Next]_vars

----------------------------------------------------------------------------
(* Properties of a run (Spec)                                              *)

\* C4: once a listed file was missing or unreadable when it was to be
\* hashed, the run has ended in main's exception handler from the snapshot
\* build: compare_folders was not run and no report was written.
C4_HashFaultAbortsRun ==
    hashFault =>
        /\ pc = "done"
        /\ aborted = "checksum"
        /\ stdout \in {"error", "unexpected"}
        /\ comparison = None
        /\ report = None

\* A build that had already inserted a key hit a vanished file and ended.
C4_Witness ==
    /\ hashFault
    /\ pc = "done"
    /\ checksums # EmptyMap
    /\ mutations < MaxMutations

\* C5: the size pass never aborts the run: no exception leaves
\* calculate_folder_size, whenever a listed file vanishes.
C5_SizePassNeverAborts ==
    aborted # "size"

LacksKey(key) ==
    \A i \in 1..Len(config.lines) : ~startswith(config.lines[i], key)

\* The config file lacks a key, or a root that main read from it does not
\* exist.
ValidationFails ==
    /\ argc = 2
    /\ config.exists
    /\ \/ LacksKey(KeyOriginal)
       \/ LacksKey(KeyDestination)
       \/ /\ original_dir # None
          /\ original_dir \notin ExistingRoots
       \/ /\ destination_dir # None
          /\ destination_dir \notin ExistingRoots

\* C6: a run whose validation fails never lists a directory, never starts
\* the size or the checksum pass, writes no report, and ends with an error
\* message.
C6_InvalidRunTouchesNothing ==
    ValidationFails =>
        /\ ~traversed
        /\ pc \in {"main", "read_config", "validate", "done"}
        /\ wpc = "idle"
        /\ comparison = None
        /\ report = None
        /\ pc = "done" => stdout \in {"error", "unexpected"}

\* A run that read both keys and found the destination root missing.
C6_Witness ==
    /\ ValidationFails
    /\ pc = "done"
    /\ aborted = "validate"
    /\ original_dir \in ExistingRoots
    /\ destination_dir \notin ExistingRoots

----------------------------------------------------------------------------
(* The two snapshot builds on their own (SpecSnap): main after its size    *)
(* pass, over trees that hold reserved and nearly reserved names, with no  *)
(* concurrent change.                                                      *)

SnapNames ==
    IGNORE_FILES
    \cup {<<"x">> \o ext : ext \in IGNORE_EXTENSIONS}
    \cup { <<".", "t", "m", "p">>, <<"t", "m", "p">>,
           <<"x", ".", "t", "m", "p", "x">>, <<"g", "i", "t">>, PlainA }

RECURSIVE SumSizes(_)
SumSizes(S) ==
    IF S = {} THEN 0
    ELSE LET f == CHOOSE g \in S : TRUE
         IN  SizeOf(fs[f].content) + SumSizes(S \ {f})

FilesUnder(top) == {f \in DOMAIN fs : f[1] = top}

InitSnap ==
    /\ argc = 2
    /\ fs \in FileSystems(SnapNames)
    /\ sep \in Seps
    /\ mutations = 0
    /\ \E dest \in {LineDestB, LineDestQuotedA} :
         /\ config = [exists |-> TRUE, lines |-> <<LineOrigA, dest>>]
         /\ original_dir = read_config(config.lines).original
         /\ destination_dir = read_config(config.lines).destination
    /\ pc = "sum_orig"
    /\ wpc = "next" /\ stack = << <<>> >> /\ root = <<>> /\ files = <<>>
    /\ total_size = 0 /\ checksums = EmptyMap /\ hashed = EmptyMap
    /\ origin_size = format_size(Limbs(SumSizes(FilesUnder(original_dir))))
    /\ destination_size =
         format_size(Limbs(SumSizes(FilesUnder(destination_dir))))
    /\ original_checksums = EmptyMap /\ destination_checksums = EmptyMap
    /\ comparison = None /\ report = None /\ stdout = ""
    /\ spinner_alive = TRUE /\ spinner_char = 1
    /\ bytes_size = Limbs(0) /\ formatted = None
    /\ traversed = TRUE /\ aborted = "none"
    /\ hashFault = FALSE /\ sizeVanish = FALSE

NextSnap ==
    WalkNext \/ HashFile \/ ChecksumReturn \/ Compare \/ MainJoin \/ MainWrite

SpecSnap == InitSnap /\ [][NextSnap]_vars

\* A reserved name, spelled out from the two lists.
ReservedName(n) ==
    \/ n \in IGNORE_FILES
    \/ \E ext \in IGNORE_EXTENSIONS :
         /\ Len(n) >= Len(ext)
         /\ \A i \in 1..Len(ext) : n[Len(n) - Len(ext) + i] = ext[i]

Reported ==
    IF comparison = None THEN {}
    ELSE Range(comparison[1].added) \cup Range(comparison[1].removed)
         \cup Range(comparison[1].changed)

\* C3: no key of a snapshot, finished or under construction, names a file
\* with a reserved name or suffix, and no such file is reported as added,
\* removed or changed.
C3_ReservedNamesNeverKeys ==
    \A k \in DOMAIN checksums \cup DOMAIN original_checksums
             \cup DOMAIN destination_checksums \cup Reported :
        ~ReservedName(Basename(k))

\* The roots differ, a reserved file is in the original only and another
\* is in both with different content, and the diff has been computed.
C3_Witness ==
    /\ comparison # None
    /\ original_dir # destination_dir
    /\ \E f \in FilesUnder(original_dir) :
         /\ ReservedName(f[3])
         /\ FileOf(destination_dir, f[2], f[3]) \notin DOMAIN fs
    /\ \E f \in FilesUnder(original_dir) :
         /\ ReservedName(f[3])
         /\ FileOf(destination_dir, f[2], f[3]) \in DOMAIN fs
         /\ fs[FileOf(destination_dir, f[2], f[3])].content # fs[f].content

\* The files of a root that the ignore policy keeps.
Eligible(top) == {f \in FilesUnder(top) : ~ReservedName(f[3])}

\* C7: the keys of the original's snapshot are what the build yields under
\* every platform separator.
C7_KeysSeparatorIndependent ==
    pc \in {"sum_dest", "compare", "join", "write", "done"} =>
        \A s \in Seps :
            DOMAIN original_checksums =
                {RelativePath(original_dir, f[2], f[3], s) :
                    f \in Eligible(original_dir)}

\* The snapshot a root should give: the names leading to each kept file,
\* joined by the platform's separator, mapped to the digest of its content.
ExpectedSnapshot(top) ==
    LET KeyOf(f) == JoinWith(f[2] \o <<f[3]>>, sep)
    IN  [k \in {KeyOf(f) : f \in Eligible(top)} |->
            Digest(fs[CHOOSE f \in Eligible(top) : KeyOf(f) = k].content)]

\* C8: whatever order the directories are visited in, a finished build
\* holds exactly one key per kept file, mapped to that file's digest, and
\* has hashed each kept file once and no file twice; two builds of the same
\* root are equal and their diff is empty.
C8_SnapshotDeterministic ==
    /\ \A p \in DOMAIN hashed : hashed[p] = 1
    /\ (pc \in SumStages /\ wpc = "next" /\ stack = <<>>) =>
         /\ checksums = ExpectedSnapshot(Top)
         /\ Cardinality(DOMAIN checksums) = Cardinality(Eligible(Top))
         /\ DOMAIN hashed =
              {FilePath(Top, f[2], f[3], sep) : f \in Eligible(Top)}
    /\ pc \in {"sum_dest", "compare", "join", "write", "done"} =>
         original_checksums = ExpectedSnapshot(original_dir)
    /\ pc \in {"compare", "join", "write", "done"} =>
         destination_checksums = ExpectedSnapshot(destination_dir)
    /\ (comparison # None /\ original_dir = destination_dir) =>
         /\ original_checksums = destination_checksums
         /\ comparison[1] = [added |-> <<>>, removed |-> <<>>,
                             changed |-> <<>>]

\* Both builds ran over the same root, which holds the same file name in
\* the root directory and in two subdirectories, and the diff is done.
C8_Witness ==
    /\ comparison # None
    /\ original_dir = destination_dir
    /\ Cardinality(Eligible(original_dir)) = 3
    /\ Cardinality(DOMAIN original_checksums) = 3

----------------------------------------------------------------------------
(* compare_folders on arbitrary snapshots (SpecDiff)                       *)

DiffKeys ==
    { <<"B">>, <<"a">>, <<"a", "b">>, <<"a", "/", "b">>, <<"b">> }

Snapshots ==
    UNION {[K -> {Digest(c) : c \in Contents}] : K \in SUBSET DiffKeys}

InitDiff ==
    /\ argc = 2
    /\ config = [exists |-> TRUE, lines |-> <<LineOrigA, LineDestB>>]
    /\ fs = EmptyMap
    /\ sep = "/"
    /\ mutations = 0
    /\ pc = "compare"
    /\ WalkIdle
    /\ original_dir = DirA /\ destination_dir = DirB
    /\ origin_size = format_size(Limbs(0))
    /\ destination_size = format_size(Limbs(0))
    /\ original_checksums \in Snapshots
    /\ destination_checksums \in Snapshots
    /\ comparison = None /\ report = None /\ stdout = ""
    /\ spinner_alive = TRUE /\ spinner_char = 1
    /\ bytes_size = Limbs(0) /\ formatted = None
    /\ traversed = TRUE /\ aborted = "none"
    /\ hashFault = FALSE /\ sizeVanish = FALSE

NextDiff == Compare

SpecDiff == InitDiff /\ [][NextDiff]_vars

\* The code points of the characters of DiffKeys.
CodePoint(c) ==
    CASE c = "/" -> 47 [] c = "B" -> 66 [] c = "a" -> 97 [] c = "b" -> 98

\* Lexicographic order by code point.
RECURSIVE LexBefore(_, _)
LexBefore(a, b) ==
    IF b = <<>> THEN FALSE
    ELSE IF a = <<>> THEN TRUE
    ELSE IF Head(a) = Head(b) THEN LexBefore(Tail(a), Tail(b))
    ELSE CodePoint(Head(a)) < CodePoint(Head(b))

\* Strictly ascending, hence free of duplicates.
Ascending(q) == \A i \in 1..(Len(q) - 1) : LexBefore(q[i], q[i + 1])

AddedKeys == DOMAIN destination_checksums \ DOMAIN original_checksums
RemovedKeys == DOMAIN original_checksums \ DOMAIN destination_checksums
ChangedKeys ==
    {k \in DOMAIN original_checksums \cap DOMAIN destination_checksums :
        original_checksums[k] # destination_checksums[k]}
UnchangedKeys ==
    {k \in DOMAIN original_checksums \cap DOMAIN destination_checksums :
        original_checksums[k] = destination_checksums[k]}

\* C1: the result's added, removed and changed hold exactly the keys only
\* in the destination, only in the original, and in both with different
\* digests; each list is strictly ascending in code point order and has no
\* duplicate; a key with equal digests is in none of them.
C1_DiffIsExactAndSorted ==
    comparison # None =>
        LET r == comparison[1]
        IN  /\ Range(r.added) = AddedKeys
            /\ Range(r.removed) = RemovedKeys
            /\ Range(r.changed) = ChangedKeys
            /\ Ascending(r.added) /\ Ascending(r.removed)
            /\ Ascending(r.changed)
            /\ Len(r.added) = Cardinality(AddedKeys)
            /\ Len(r.removed) = Cardinality(RemovedKeys)
            /\ Len(r.changed) = Cardinality(ChangedKeys)
            /\ UnchangedKeys \cap
                   (Range(r.added) \cup Range(r.removed)
                    \cup Range(r.changed)) = {}

\* A diff whose added list needs sorting across case, prefix and
\* separator, next to a changed and a removed key.
C1_Witness ==
    /\ comparison # None
    /\ comparison[1].added = << <<"B">>, <<"a", "/", "b">>, <<"a", "b">> >>
    /\ comparison[1].changed = << <<"a">> >>
    /\ comparison[1].removed = << <<"b">> >>

\* C2: added, removed and changed are pairwise disjoint; every key of
\* either snapshot is in exactly one of added, removed, changed and
\* unchanged; nothing else is reported.
C2_DiffIsPartition ==
    comparison # None =>
        LET a == Range(comparison[1].added)
            r == Range(comparison[1].removed)
            c == Range(comparison[1].changed)
            all == DOMAIN original_checksums \cup DOMAIN destination_checksums
        IN  /\ a \cap r = {} /\ a \cap c = {} /\ r \cap c = {}
            /\ a \cup r \cup c \subseteq all
            /\ \A k \in all :
                 Cardinality({i \in 1..4 :
                     \/ i = 1 /\ k \in a
                     \/ i = 2 /\ k \in r
                     \/ i = 3 /\ k \in c
                     \/ i = 4 /\ k \in UnchangedKeys}) = 1

\* A diff with a key in each of the four classes.
C2_Witness ==
    /\ comparison # None
    /\ comparison[1].added # <<>>
    /\ comparison[1].removed # <<>>
    /\ comparison[1].changed # <<>>
    /\ UnchangedKeys # {}

----------------------------------------------------------------------------
(* format_size on arbitrary byte counts (SpecFmt)                          *)

LimbValues == {0, 1, 2, Base \div 2, Base \div 2 + 1, Base - 1}

InitFmt ==
    /\ argc = 2
    /\ config = [exists |-> TRUE, lines |-> <<LineOrigA, LineDestB>>]
    /\ fs = EmptyMap
    /\ sep = "/"
    /\ mutations = 0
    /\ pc = "format_size"
    /\ WalkIdle
    /\ original_dir = DirA /\ destination_dir = DirB
    /\ origin_size = None /\ destination_size = None
    /\ original_checksums = EmptyMap /\ destination_checksums = EmptyMap
    /\ comparison = None /\ report = None /\ stdout = ""
    /\ spinner_alive = TRUE /\ spinner_char = 1
    /\ bytes_size \in [1..NumLimbs -> LimbValues]
    /\ formatted = None
    /\ traversed = TRUE /\ aborted = "none"
    /\ hashFault = FALSE /\ sizeVanish = FALSE

\* A call of format_size(bytes_size).
FormatSize ==
    /\ pc = "format_size"
    /\ formatted' = format_size(bytes_size)
    /\ pc' = "formatted"
    /\ UNCHANGED <<envVars, walkVars, resultVars, spinnerVars, bytes_size,
                   historyVars, dirVars, stdout>>

NextFmt == FormatSize

SpecFmt == InitFmt /\ [][NextFmt]_vars

\* The index of the largest 1024-based unit that does not exceed the
\* count, from 0 for B to 4 for TB.
UnitIndex(limbs) ==
    LET nz == {i \in 1..Len(limbs) : limbs[i] # 0}
        top == IF nz = {} THEN 1
               ELSE CHOOSE i \in nz : \A j \in nz : j <= i
    IN  Min(top, Len(Units)) - 1

\* The count divided by 1024^k, truncated: the digits from k+1 up.
RECURSIVE Truncated(_, _)
Truncated(limbs, k) ==
    IF k >= Len(limbs) THEN 0
    ELSE limbs[k + 1] + Base * Truncated(limbs, k + 1)

\* C9: format_size returns, for every count, the count divided by its
\* unit truncated toward zero, followed by that unit.
C9_TruncatedInLargestUnit ==
    pc = "formatted" =>
        formatted = Some([num |-> Truncated(bytes_size, UnitIndex(bytes_size)),
                          unit |-> Units[UnitIndex(bytes_size) + 1]])

----------------------------------------------------------------------------
(* Termination under a fair scheduler (FairSpec)                           *)

\* Runs with a valid argument, over the trees of one file name and a
\* config file of each kind: absent, lacking a key, naming a missing root,
\* naming two roots.
FairConfigFiles ==
    {[exists |-> FALSE, lines |-> <<>>],
     [exists |-> TRUE, lines |-> <<LineOrigA>>],
     [exists |-> TRUE, lines |-> <<LineOrigA, LineDestM>>],
     [exists |-> TRUE, lines |-> <<LineOrigA, LineDestB>>]}

InitFair ==
    /\ argc = 2
    /\ config \in FairConfigFiles
    /\ fs \in {f \in FileSystems({PlainA}) : Cardinality(DOMAIN f) <= MaxFiles}
    /\ sep = "/"
    /\ mutations = MaxMutations
    /\ pc = "main"
    /\ Fresh

\* The interpreter keeps running the main thread whatever the spinner
\* thread and the other process do.
FairSpec == InitFair /\ [][Next]_vars /\ WF_vars(MainNext)

\* C10: with a valid argument main ends with the report written or an
\* error reported, and a step of the spinner changes nothing but the
\* spinner's own character.
C10_SpinnerNeverBlocksMain ==
    /\ (argc = 2) =>
         <>(pc = "done" /\ stdout \in {"written", "error", "unexpected"})
    /\ [][Spin => UNCHANGED <<envVars, pc, walkVars, resultVars,
                              spinner_alive, harnessVars, historyVars,
                              dirVars, stdout>>]_vars

\* Main wrote the report and returned while the spinner, having turned,
\* was still alive.
C10_Witness ==
    /\ pc = "done"
    /\ stdout = "written"
    /\ spinner_alive
    /\ spinner_char # 1

====
